---- MODULE Spec2Model ----
(***************************************************************************)
(* Model of ElevenLabsTTSWrapper._synthesize_single_python_helper          *)
(* (src/aeneas/ttswrappers/elevenlabsttswrapper.py, lines 272-410).        *)
(*                                                                         *)
(* One synthesize call is a sequential process; pc is its position in the  *)
(* function body.  The provider (requests.post), the temporary-file        *)
(* namespace (gf.tmp_file) and the external transcoder (ffmpeg) are the    *)
(* environment: their answers are chosen nondeterministically from small   *)
(* sets.  Byte strings are sequences of integers in 0..255; a file is a    *)
(* record holding its WAVE header (empty for a headerless file) and data.  *)
(***************************************************************************)
EXTENDS Integers, Sequences, FiniteSets, TLC

VARIABLES
    pc,                 \* position of the call in the function body
    rconf_attempts,     \* rconf[TTS_API_RETRY_ATTEMPTS]
    rconf_sleep,        \* rconf[TTS_API_SLEEP], in milliseconds
    rconf_voice_id,     \* rconf[ELEVEN_LABS_VOICE_ID] (NoVoiceId when not configured)
    voice_code,         \* argument voice_code
    url,                \* local variable url
    tmp_root,           \* directory in which gf.tmp_file creates files
    output_file_path,   \* argument output_file_path (None or a path)
    attempts,           \* local variable attempts
    response,           \* local variable response (last value bound)
    output_file_path_2, \* local variable output_file_path_2
    input_file_path,    \* local variable input_file_path
    fs,                 \* the file system: path -> file
    proc,               \* how the transcoder invocation ended
    result,             \* value returned by the call
    error,              \* message of the exception raised by the call
    slept,              \* the delay of every time.sleep call made, in order
    posts,              \* number of requests.post calls made by the call
    spawns,             \* number of subprocess.Popen calls made by the call
    statuses,           \* outcome of every POST of the call, in order
    other               \* a second call running at the same time (NoOther: none)

vars == <<pc, other, rconf_attempts, rconf_sleep, rconf_voice_id, voice_code, tmp_root, url, output_file_path, attempts, response,
          output_file_path_2, input_file_path, fs, proc, result, error,
          slept, posts, spawns, statuses>>

(***************************************************************************)
(* Bounds of the model.                                                    *)
(***************************************************************************)
MaxAttempts == 3

MaxTmpNames == 4

(***************************************************************************)
(* Program constants.                                                      *)
(***************************************************************************)
SAMPLE_RATE == 16000

HTTP_OK == 200

NORM == 32768

AUDIO_FORMAT == "pcm16"

ERR_POST == "Unexpected exception on HTTP POST. Are you offline?"

ERR_STATUS == "All API requests returned status code != 200"

ERR_FROMSTRING == "string size must be a multiple of element size"

(***************************************************************************)
(* Values of the model.                                                    *)
(***************************************************************************)
None == <<>>

NoFile == [exists |-> FALSE, hdr |-> <<>>, data |-> <<>>]

NoResponse == [status_code |-> 0, content |-> <<>>]

NoResult == [returned |-> FALSE,
             audio_length |-> [num |-> 0, den |-> 1],
             audio_sample_rate |-> 0,
             audio_format |-> "",
             audio_samples |-> <<>>]

\* ".wav"
WavSuffix == <<46, 119, 97, 118>>

\* directories gf.tmp_file may create its files in: "/" and "t/"
TmpRoots == {<<47>>, <<116, 47>>}

\* the random component of a temporary file name: "a", "b", ...
TmpNames == {96 + i : i \in 1..MaxTmpNames}

TmpPaths == {r \o <<n>> \o WavSuffix : r \in TmpRoots, n \in TmpNames}

\* the caller's output path: "o.wav"
OutPath == <<111>> \o WavSuffix

Paths == TmpPaths \cup {OutPath}

\* bodies of the provider's answers (raw audio bytes)
Contents == {<<1, 0>>, <<0, 128, 5>>}

\* configured throttle delays, in milliseconds
SleepDelays == {0, 500}

\* status codes the provider answers with
StatusCodes == {HTTP_OK, 429, 500}

\* sample data the transcoder may write (16-bit little-endian PCM)
TranscodedData == {<<>>, <<255, 127, 0, 128>>}

\* the second call: its position and its temporary files
NoOther == [pc |-> "none", output_file_path_2 |-> None,
            input_file_path |-> None, content |-> <<>>]

\* a file left at the output path by an earlier run
OldFile == [exists |-> TRUE, hdr |-> <<>>, data |-> <<9>>]

(***************************************************************************)
(* Pure functions of the call.                                             *)
(***************************************************************************)
\* lines 221-250: the voice of each language code (three of its entries)
LANGUAGE_TO_VOICE_CODE ==
    [code \in {"eng", "fra", "ita"} |->
        CASE code = "eng" -> "Joanna"
          [] code = "fra" -> "Celine"
          [] code = "ita" -> "Carla"]

\* the value of rconf[ELEVEN_LABS_VOICE_ID] when no voice id is configured
NoVoiceId == "<None>"

\* voice ids a configuration may hold
VoiceIds == {"21m00Tcm"}

\* voice codes a caller may pass: two of the table, one that is not in it
VoiceCodes == {"eng", "fra", "zzz"}

\* line 265
URL == "https://api.elevenlabs.io"

\* line 267
END_POINT == "/v1/text-to-speech/"

\* the value of url before line 294
NoUrl == <<>>

\* "%s" % voice_id: None is formatted as "None"
FormatS(v) == IF v = NoVoiceId THEN "None" ELSE v

\* lines 294-298: url = "%s%s%s" % (self.URL, self.END_POINT, voice_id)
RequestUrl(voice_id) == <<URL, END_POINT, FormatS(voice_id)>>

\* LoopCond entered with no attempt left: while attempts >= 0
LoopCond_Inclusive(a) == a >= 0

\* LoopCond off by one: while attempts > 1
LoopCond_OffByOne(a) == a > 1

\* line 305: while attempts > 0
LoopCond(a) == a > 0

\* IsSuccess for every status from 200 up
IsSuccess_Lax(status_code) == status_code >= HTTP_OK

\* line 326: if status_code == 200
IsSuccess(status_code) == status_code = HTTP_OK

\* Decrement by two
Decrement_Twice(a) == a - 2

\* line 331: attempts -= 1
Decrement(a) == a - 1

\* Exhausted only below zero: if attempts < 0
Exhausted_Strict(a) == a < 0

\* line 333: if attempts <= 0
Exhausted(a) == a <= 0

\* WaveWrite without the wave module: the bytes written as they are
WaveWrite_NoHeader(frames) ==
    [exists |-> TRUE, hdr |-> <<>>, data |-> frames]

\* lines 342-347: the WAVE file wave.open(..., "wb") writes for the frames
WaveWrite(frames) ==
    [exists |-> TRUE, hdr |-> <<1, 2, SAMPLE_RATE>>, data |-> frames]

\* lines 371-372: open(input_file_path, "wb").write(content)
RawWrite(content) == [exists |-> TRUE, hdr |-> <<>>, data |-> content]

\* lines 369-370: the file tempfile.mkstemp creates (empty)
EmptyFile == [exists |-> TRUE, hdr |-> <<>>, data |-> <<>>]

\* lines 374-380: what "ffmpeg -i in -c:a pcm_s16le -ar 16000 out" writes when
\* it succeeds; the channel count is that of the input (no -ac argument)
TranscodedFile(nchannels, data) ==
    [exists |-> TRUE, hdr |-> <<nchannels, 2, SAMPLE_RATE>>, data |-> data]

\* audio_sample_rate read from the header of the file the transcoder left
audio_sample_rate_FromFile ==
    IF fs[output_file_path_2].hdr = <<>> THEN 0
    ELSE fs[output_file_path_2].hdr[3]

\* line 400: audio_sample_rate = self.SAMPLE_RATE
audio_sample_rate == SAMPLE_RATE

\* line 401: number_of_frames = len(output_file_path_2) / 2 (true division)
number_of_frames(path) == [num |-> Len(path), den |-> 2]

\* line 402: audio_length = TimeValue(number_of_frames / audio_sample_rate)
audio_length(path) ==
    [num |-> number_of_frames(path).num,
     den |-> number_of_frames(path).den * audio_sample_rate]

\* line 406: audio_format = "pcm16"
audio_format == AUDIO_FORMAT

\* numpy.int16 from two bytes, little-endian, two's complement
Int16(lo, hi) ==
    LET u == lo + 256 * hi IN IF u >= 32768 THEN u - 65536 ELSE u

\* numpy.fromstring(s, dtype=numpy.int16) for a string of even length
RECURSIVE fromstring(_)
fromstring(s) ==
    IF Len(s) < 2 THEN <<>>
    ELSE <<Int16(s[1], s[2])>> \o fromstring(SubSeq(s, 3, Len(s)))

\* numpy.fromstring raises ValueError unless the size is a multiple of 2
FromstringRaises(s) == Len(s) % 2 # 0

\* .astype("float64") / 32768
Normalize(ints) == [i \in 1..Len(ints) |-> [num |-> ints[i], den |-> NORM]]

\* line 407: audio_samples = numpy.fromstring(output_file_path_2, ...) / 32768
audio_samples(path) == Normalize(fromstring(path))

\* line 410: return (True, (audio_length, audio_sample_rate, audio_format, audio_samples))
ReturnValue(path) ==
    [returned |-> TRUE,
     audio_length |-> audio_length(path),
     audio_sample_rate |-> audio_sample_rate,
     audio_format |-> audio_format,
     audio_samples |-> audio_samples(path)]

\* the paths at which a file exists
Existing(f) == {p \in Paths : f[p].exists}

\* gf.tmp_file(".wav"): mkstemp picks a name in the root that does not exist yet
FreshTmp(f, root) ==
    {p \in TmpPaths : SubSeq(p, 1, Len(root)) = root
                      /\ Len(p) = Len(root) + 1 + Len(WavSuffix)
                      /\ ~f[p].exists}

\* the frames of a WAVE file: data bytes / (channels * bytes per sample)
FrameCount(file) ==
    IF file.hdr = <<>> THEN 0 ELSE Len(file.data) \div (file.hdr[1] * file.hdr[2])

\* one entry of the POST history
Answered(status_code) == [raised |-> FALSE, status_code |-> status_code]

RaisedExc == [raised |-> TRUE, status_code |-> 0]

(***************************************************************************)
(* Initial state: the call has been made, nothing of it has run yet.       *)
(***************************************************************************)
InitCall ==
    /\ pc = "start"
    /\ rconf_attempts \in (0 - 1)..MaxAttempts
    /\ rconf_sleep \in SleepDelays
    /\ rconf_voice_id \in {NoVoiceId} \cup VoiceIds
    /\ voice_code \in VoiceCodes
    /\ tmp_root \in TmpRoots
    /\ url = NoUrl
    /\ output_file_path \in {None, OutPath}
    /\ attempts = 0
    /\ response = NoResponse
    /\ output_file_path_2 = None
    /\ input_file_path = None
    /\ \E old \in {NoFile, OldFile} :
          fs = [p \in Paths |-> IF p = OutPath THEN old ELSE NoFile]
    /\ proc = "none"
    /\ result = NoResult
    /\ error = ""
    /\ slept = <<>>
    /\ posts = 0
    /\ spawns = 0
    /\ statuses = <<>>

\* one call, no other call running
Init ==
    /\ InitCall
    /\ other = NoOther

(***************************************************************************)
(* The steps of the call.                                                  *)
(***************************************************************************)
\* lines 273-304: build the request, read the sleep delay and the attempts
Start ==
    /\ pc = "start"
    /\ url' = RequestUrl(rconf_voice_id)
    /\ attempts' = rconf_attempts
    /\ pc' = "loop"
    /\ UNCHANGED <<other, rconf_attempts, rconf_sleep, rconf_voice_id, voice_code, tmp_root, output_file_path, response,
                   output_file_path_2, input_file_path, fs, proc, result,
                   error, slept, posts, spawns, statuses>>

\* line 305: the loop condition holds
LoopEnter ==
    /\ pc = "loop"
    /\ LoopCond(attempts)
    /\ pc' = "sleep"
    /\ UNCHANGED <<other, rconf_attempts, rconf_sleep, rconf_voice_id, voice_code, tmp_root, url, output_file_path, attempts,
                   response, output_file_path_2, input_file_path, fs, proc,
                   result, error, slept, posts, spawns, statuses>>

\* line 305: the loop condition fails
LoopExit ==
    /\ pc = "loop"
    /\ ~LoopCond(attempts)
    /\ pc' = "check"
    /\ UNCHANGED <<other, rconf_attempts, rconf_sleep, rconf_voice_id, voice_code, tmp_root, url, output_file_path, attempts,
                   response, output_file_path_2, input_file_path, fs, proc,
                   result, error, slept, posts, spawns, statuses>>

\* lines 306-308: time.sleep(sleep_delay)
Sleep ==
    /\ pc = "sleep"
    /\ slept' = Append(slept, rconf_sleep)
    /\ pc' = "post"
    /\ UNCHANGED <<other, rconf_attempts, rconf_sleep, rconf_voice_id, voice_code, tmp_root, url, output_file_path, attempts,
                   response, output_file_path_2, input_file_path, fs, proc,
                   result, error, posts, spawns, statuses>>

\* PostRaises with the exception logged and the attempt retried
PostRaises_Retried ==
    /\ pc = "post"
    /\ posts' = posts + 1
    /\ statuses' = Append(statuses, RaisedExc)
    /\ attempts' = Decrement(attempts)
    /\ pc' = "loop"
    /\ UNCHANGED <<other, rconf_attempts, rconf_sleep, rconf_voice_id, voice_code, tmp_root, url, output_file_path, response,
                   output_file_path_2, input_file_path, fs, proc, result,
                   error, slept, spawns>>

\* lines 310-322: requests.post raises; log_exc(..., True, ValueError) raises
PostRaises ==
    /\ pc = "post"
    /\ posts' = posts + 1
    /\ statuses' = Append(statuses, RaisedExc)
    /\ error' = ERR_POST
    /\ pc' = "failed"
    /\ UNCHANGED <<other, rconf_attempts, rconf_sleep, rconf_voice_id, voice_code, tmp_root, url, output_file_path, attempts,
                   response, output_file_path_2, input_file_path, fs, proc,
                   result, slept, spawns>>

\* lines 310-328: requests.post answers 200: break
PostSuccess ==
    /\ pc = "post"
    /\ \E status_code \in StatusCodes, content \in Contents :
          /\ IsSuccess(status_code)
          /\ response' = [status_code |-> status_code, content |-> content]
          /\ statuses' = Append(statuses, Answered(status_code))
    /\ posts' = posts + 1
    /\ pc' = "check"
    /\ UNCHANGED <<other, rconf_attempts, rconf_sleep, rconf_voice_id, voice_code, tmp_root, url, output_file_path, attempts,
                   output_file_path_2, input_file_path, fs, proc, result,
                   error, slept, spawns>>

\* PostFailure retrying until the provider answers 200: no decrement, no
\* limit (of the POSTs answered non-200 only the first is kept in the history)
PostFailure_RetryForever ==
    /\ pc = "post"
    /\ \E status_code \in StatusCodes, content \in Contents :
          /\ ~IsSuccess(status_code)
          /\ response' = [status_code |-> status_code, content |-> content]
          /\ statuses' = IF statuses = <<>>
                            THEN Append(statuses, Answered(status_code))
                            ELSE statuses
    /\ posts' = IF posts = 0 THEN posts + 1 ELSE posts
    /\ pc' = "post"
    /\ UNCHANGED <<other, rconf_attempts, rconf_sleep, rconf_voice_id, voice_code, tmp_root, url, output_file_path,
                   attempts, output_file_path_2, input_file_path, fs, proc,
                   result, error, slept, spawns>>

\* PostFailure with the retry going straight to the POST, without the sleep
PostFailure_NoSleep ==
    /\ pc = "post"
    /\ \E status_code \in StatusCodes, content \in Contents :
          /\ ~IsSuccess(status_code)
          /\ response' = [status_code |-> status_code, content |-> content]
          /\ statuses' = Append(statuses, Answered(status_code))
    /\ posts' = posts + 1
    /\ attempts' = Decrement(attempts)
    /\ pc' = IF LoopCond(attempts') THEN "post" ELSE "check"
    /\ UNCHANGED <<other, rconf_attempts, rconf_sleep, rconf_voice_id, voice_code, tmp_root, url, output_file_path,
                   output_file_path_2, input_file_path, fs, proc, result,
                   error, slept, spawns>>

\* lines 310-331: requests.post answers another status: attempts -= 1
PostFailure ==
    /\ pc = "post"
    /\ \E status_code \in StatusCodes, content \in Contents :
          /\ ~IsSuccess(status_code)
          /\ response' = [status_code |-> status_code, content |-> content]
          /\ statuses' = Append(statuses, Answered(status_code))
    /\ posts' = posts + 1
    /\ attempts' = Decrement(attempts)
    /\ pc' = "loop"
    /\ UNCHANGED <<other, rconf_attempts, rconf_sleep, rconf_voice_id, voice_code, tmp_root, url, output_file_path,
                   output_file_path_2, input_file_path, fs, proc, result,
                   error, slept, spawns>>

\* CheckRaises with the error only logged: the call goes on
CheckRaises_Continue ==
    /\ pc = "check"
    /\ Exhausted(attempts)
    /\ pc' = "save"
    /\ UNCHANGED <<other, rconf_attempts, rconf_sleep, rconf_voice_id, voice_code, tmp_root, url, output_file_path, attempts,
                   response, output_file_path_2, input_file_path, fs, proc,
                   result, error, slept, posts, spawns, statuses>>

\* lines 333-334: no attempt is left: log_exc(..., True, ValueError) raises
CheckRaises ==
    /\ pc = "check"
    /\ Exhausted(attempts)
    /\ error' = ERR_STATUS
    /\ pc' = "failed"
    /\ UNCHANGED <<other, rconf_attempts, rconf_sleep, rconf_voice_id, voice_code, tmp_root, url, output_file_path, attempts,
                   response, output_file_path_2, input_file_path, fs, proc,
                   result, slept, posts, spawns, statuses>>

\* line 333: an attempt is left
CheckPasses ==
    /\ pc = "check"
    /\ ~Exhausted(attempts)
    /\ pc' = "save"
    /\ UNCHANGED <<other, rconf_attempts, rconf_sleep, rconf_voice_id, voice_code, tmp_root, url, output_file_path, attempts,
                   response, output_file_path_2, input_file_path, fs, proc,
                   result, error, slept, posts, spawns, statuses>>

\* lines 337-338: output_file_path is None
SaveSkip ==
    /\ pc = "save"
    /\ output_file_path = None
    /\ pc' = "tmp"
    /\ UNCHANGED <<other, rconf_attempts, rconf_sleep, rconf_voice_id, voice_code, tmp_root, url, output_file_path, attempts,
                   response, output_file_path_2, input_file_path, fs, proc,
                   result, error, slept, posts, spawns, statuses>>

\* lines 339-348: write response.content as the frames of a WAVE file
SaveFile ==
    /\ pc = "save"
    /\ output_file_path # None
    /\ fs' = [fs EXCEPT ![output_file_path] = WaveWrite(response.content)]
    /\ pc' = "tmp"
    /\ UNCHANGED <<other, rconf_attempts, rconf_sleep, rconf_voice_id, voice_code, tmp_root, url, output_file_path, attempts,
                   response, output_file_path_2, input_file_path, proc,
                   result, error, slept, posts, spawns, statuses>>

\* TmpFileOut with a fixed name in place of the name gf.tmp_file picks
TmpFileOut_FixedName ==
    /\ pc = "tmp"
    /\ \E p2 \in TmpPaths :
          /\ p2 = tmp_root \o <<97>> \o WavSuffix
          /\ output_file_path_2' = p2
          /\ fs' = [fs EXCEPT ![p2] = EmptyFile]
    /\ pc' = "tmp_in"
    /\ UNCHANGED <<other, rconf_attempts, rconf_sleep, rconf_voice_id, voice_code, tmp_root, url, output_file_path, attempts,
                   response, input_file_path, proc, result, error, slept,
                   posts, spawns, statuses>>

\* line 369: output_handler, output_file_path_2 = gf.tmp_file(u".wav")
TmpFileOut ==
    /\ pc = "tmp"
    /\ \E p2 \in FreshTmp(fs, tmp_root) :
          /\ output_file_path_2' = p2
          /\ fs' = [fs EXCEPT ![p2] = EmptyFile]
    /\ pc' = "tmp_in"
    /\ UNCHANGED <<other, rconf_attempts, rconf_sleep, rconf_voice_id, voice_code, tmp_root, url, output_file_path, attempts,
                   response, input_file_path, proc, result, error, slept,
                   posts, spawns, statuses>>

\* line 370: input_handler, input_file_path = gf.tmp_file(u".wav")
TmpFileIn ==
    /\ pc = "tmp_in"
    /\ \E p1 \in FreshTmp(fs, tmp_root) :
          /\ input_file_path' = p1
          /\ fs' = [fs EXCEPT ![p1] = EmptyFile]
    /\ pc' = "write_in"
    /\ UNCHANGED <<other, rconf_attempts, rconf_sleep, rconf_voice_id, voice_code, tmp_root, url, output_file_path, attempts,
                   response, output_file_path_2, proc, result, error, slept,
                   posts, spawns, statuses>>

\* lines 371-372: response.content is written to the input file
WriteInput ==
    /\ pc = "write_in"
    /\ fs' = [fs EXCEPT ![input_file_path] = RawWrite(response.content)]
    /\ pc' = "ffmpeg"
    /\ UNCHANGED <<other, rconf_attempts, rconf_sleep, rconf_voice_id, voice_code, tmp_root, url, output_file_path, attempts,
                   response, output_file_path_2, input_file_path, proc,
                   result, error, slept, posts, spawns, statuses>>

\* lines 382-396: Popen raises OSError; it is printed and the call goes on
TranscodeOSError ==
    /\ pc = "ffmpeg"
    /\ spawns' = spawns + 1
    /\ proc' = "oserror"
    /\ pc' = "decode"
    /\ UNCHANGED <<other, rconf_attempts, rconf_sleep, rconf_voice_id, voice_code, tmp_root, url, output_file_path, attempts,
                   response, output_file_path_2, input_file_path, fs, result,
                   error, slept, posts, statuses>>

\* lines 382-393: ffmpeg exits with a non-zero status and writes nothing;
\* the exit status is not read
TranscodeNonZero ==
    /\ pc = "ffmpeg"
    /\ spawns' = spawns + 1
    /\ proc' = "nonzero"
    /\ pc' = "decode"
    /\ UNCHANGED <<other, rconf_attempts, rconf_sleep, rconf_voice_id, voice_code, tmp_root, url, output_file_path, attempts,
                   response, output_file_path_2, input_file_path, fs, result,
                   error, slept, posts, statuses>>

\* lines 382-393: ffmpeg writes the transcoded WAVE file
TranscodeOK ==
    /\ pc = "ffmpeg"
    /\ spawns' = spawns + 1
    /\ proc' = "ok"
    /\ \E nchannels \in {1, 2}, data \in TranscodedData :
          fs' = [fs EXCEPT ![output_file_path_2] =
                               TranscodedFile(nchannels, data)]
    /\ pc' = "decode"
    /\ UNCHANGED <<other, rconf_attempts, rconf_sleep, rconf_voice_id, voice_code, tmp_root, url, output_file_path, attempts,
                   response, output_file_path_2, input_file_path, result,
                   error, slept, posts, statuses>>

\* lines 400-407: numpy.fromstring raises ValueError on the path string
DecodeRaises ==
    /\ pc = "decode"
    /\ FromstringRaises(output_file_path_2)
    /\ error' = ERR_FROMSTRING
    /\ pc' = "failed"
    /\ UNCHANGED <<other, rconf_attempts, rconf_sleep, rconf_voice_id, voice_code, tmp_root, url, output_file_path, attempts,
                   response, output_file_path_2, input_file_path, fs, proc,
                   result, slept, posts, spawns, statuses>>

\* lines 400-410: the result is computed from the path string and returned
Return ==
    /\ pc = "decode"
    /\ ~FromstringRaises(output_file_path_2)
    /\ result' = ReturnValue(output_file_path_2)
    /\ pc' = "done"
    /\ UNCHANGED <<other, rconf_attempts, rconf_sleep, rconf_voice_id, voice_code, tmp_root, url, output_file_path, attempts,
                   response, output_file_path_2, input_file_path, fs, proc,
                   error, slept, posts, spawns, statuses>>

Next ==
    \/ Start
    \/ LoopEnter
    \/ LoopExit
    \/ Sleep
    \/ PostRaises
    \/ PostSuccess
    \/ PostFailure
    \/ CheckRaises
    \/ CheckPasses
    \/ SaveSkip
    \/ SaveFile
    \/ TmpFileOut
    \/ TmpFileIn
    \/ WriteInput
    \/ TranscodeOSError
    \/ TranscodeNonZero
    \/ TranscodeOK
    \/ DecodeRaises
    \/ Return

Spec == Init /\ [][Next]_vars

\* the call is one thread that runs on: whenever a step of it can be taken,
\* one is taken (every sleep, POST and transcoder invocation returns)
SpecFair == Spec /\ WF_vars(Next)

\* number of time.sleep calls made by the call
sleeps == Len(slept)

\* the call has returned, with a result or with an error
Returned == pc \in {"done", "failed"}

(***************************************************************************)

(***************************************************************************)
(* Two calls at the same time.  The second call runs the same function on  *)
(* the same file system and in the same temporary directory; of its steps, *)
(* those that touch no shared state (lines 273-348, without output path)   *)
(* are one step.                                                           *)
(***************************************************************************)
CallVars == <<pc, rconf_attempts, rconf_sleep, rconf_voice_id, voice_code,
              tmp_root, url, output_file_path, attempts, response,
              output_file_path_2, input_file_path, proc, result, error,
              slept, posts, spawns, statuses>>

\* lines 273-348 of the second call: it got a 200 answer
OtherRequest ==
    /\ other.pc = "start"
    /\ \E content \in Contents :
          other' = [other EXCEPT !.pc = "tmp", !.content = content]
    /\ UNCHANGED <<CallVars, fs>>

\* lines 273-334 of the second call: it raised in the retry loop
OtherRequestFails ==
    /\ other.pc = "start"
    /\ other' = [other EXCEPT !.pc = "returned"]
    /\ UNCHANGED <<CallVars, fs>>

\* line 369 of the second call
OtherTmpFileOut ==
    /\ other.pc = "tmp"
    /\ \E p2 \in FreshTmp(fs, tmp_root) :
          /\ other' = [other EXCEPT !.pc = "tmp_in", !.output_file_path_2 = p2]
          /\ fs' = [fs EXCEPT ![p2] = EmptyFile]
    /\ UNCHANGED CallVars

\* line 370 of the second call
OtherTmpFileIn ==
    /\ other.pc = "tmp_in"
    /\ \E p1 \in FreshTmp(fs, tmp_root) :
          /\ other' = [other EXCEPT !.pc = "write_in", !.input_file_path = p1]
          /\ fs' = [fs EXCEPT ![p1] = EmptyFile]
    /\ UNCHANGED CallVars

\* lines 371-372 of the second call
OtherWriteInput ==
    /\ other.pc = "write_in"
    /\ fs' = [fs EXCEPT ![other.input_file_path] = RawWrite(other.content)]
    /\ other' = [other EXCEPT !.pc = "ffmpeg"]
    /\ UNCHANGED CallVars

\* lines 382-396 of the second call: the transcoder writes nothing
OtherTranscodeFails ==
    /\ other.pc = "ffmpeg"
    /\ other' = [other EXCEPT !.pc = "decode"]
    /\ UNCHANGED <<CallVars, fs>>

\* lines 382-393 of the second call: the transcoder writes its output file
OtherTranscodeOK ==
    /\ other.pc = "ffmpeg"
    /\ \E nchannels \in {1, 2}, data \in TranscodedData :
          fs' = [fs EXCEPT ![other.output_file_path_2] =
                               TranscodedFile(nchannels, data)]
    /\ other' = [other EXCEPT !.pc = "decode"]
    /\ UNCHANGED CallVars

\* lines 400-410 of the second call: it returns or raises
OtherReturn ==
    /\ other.pc = "decode"
    /\ other' = [other EXCEPT !.pc = "returned"]
    /\ UNCHANGED <<CallVars, fs>>

\* two calls; the configuration of the first is fixed to one attempt
InitConc ==
    /\ InitCall
    /\ rconf_attempts = 1
    /\ rconf_sleep = 0
    /\ rconf_voice_id = NoVoiceId
    /\ voice_code = "eng"
    /\ ~fs[OutPath].exists
    /\ other = [NoOther EXCEPT !.pc = "start"]

NextConc ==
    \/ Next
    \/ OtherRequest
    \/ OtherRequestFails
    \/ OtherTmpFileOut
    \/ OtherTmpFileIn
    \/ OtherWriteInput
    \/ OtherTranscodeFails
    \/ OtherTranscodeOK
    \/ OtherReturn

SpecConc == InitConc /\ [][NextConc]_vars

(***************************************************************************)
(* Properties.                                                             *)
(***************************************************************************)
\* the provider answered non-200 to the first N-1 POSTs and 200 to the N-th
FailsThenSucceeds ==
    \A i \in DOMAIN statuses :
        /\ i < rconf_attempts =>
              (~statuses[i].raised /\ ~IsSuccess(statuses[i].status_code))
        /\ i = rconf_attempts =>
              (~statuses[i].raised /\ IsSuccess(statuses[i].status_code))

\* the provider answered non-200 to every POST
AllNon200 ==
    \A i \in DOMAIN statuses :
        ~statuses[i].raised /\ ~IsSuccess(statuses[i].status_code)

\* some POST raised a transport-level exception
SomePostRaised == \E i \in DOMAIN statuses : statuses[i].raised

\* the temporary files the call created
CallTmpFiles == {input_file_path, output_file_path_2} \ {None}

\* the transcoder failed: it could not be started, or exited non-zero
\* leaving no output
TranscoderFailed == proc \in {"oserror", "nonzero"}

\* C1: for N >= 1, when the provider answers non-200 to the first N-1 POSTs
\* and 200 to the N-th, the call returns a result (no error) and the endpoint
\* was POSTed exactly N times.
C1_SucceedsOnNth ==
    (Returned /\ rconf_attempts >= 1 /\ FailsThenSucceeds) =>
        (/\ pc = "done"
         /\ result.returned
         /\ error = ""
         /\ posts = rconf_attempts)

\* C2: for N >= 1, when the provider answers non-200 to every POST, the call
\* fails with the attempts-exhausted error after exactly N POSTs and returns
\* no result.
C2_FailsAfterN ==
    (Returned /\ rconf_attempts >= 1 /\ AllNon200) =>
        (/\ pc = "failed"
         /\ error = ERR_STATUS
         /\ ~result.returned
         /\ posts = rconf_attempts)

C2_Witness ==
    /\ pc = "failed"
    /\ rconf_attempts >= 2
    /\ AllNon200
    /\ posts = rconf_attempts
    /\ error = ERR_STATUS

\* C3: once the call has returned (result or error), none of the temporary
\* files it created exists any more.
C3_NoTmpFileLeft ==
    Returned => \A p \in CallTmpFiles : ~fs[p].exists

\* C4: when the transcoder fails, the call fails with TranscodeError and
\* returns no result.
C4_TranscodeError ==
    (Returned /\ TranscoderFailed) =>
        (/\ pc = "failed"
         /\ error = "TranscodeError"
         /\ ~result.returned)

\* C5: a transport-level exception of a POST ends the call with the network
\* error, whatever the remaining attempts; afterwards no sleep, POST, file
\* write or transcode happens and no result is returned.
C5_TransportFatal ==
    /\ [](SomePostRaised =>
             (/\ pc = "failed"
              /\ error = ERR_POST
              /\ ~result.returned
              /\ statuses[Len(statuses)].raised))
    /\ [][SomePostRaised =>
             UNCHANGED <<slept, posts, spawns, fs, pc, result, error>>]_vars

C5_Witness ==
    /\ SomePostRaised
    /\ pc = "failed"
    /\ posts >= 2
    /\ attempts >= 2

\* C6: every POST, the first included, is immediately preceded by exactly one
\* throttle sleep: a POST is pending exactly when one sleep more than POSTs
\* has been made, and after each POST sleeps = POSTs.
C6_SleepBeforeEveryPost ==
    /\ IF pc = "post" THEN sleeps = posts + 1 ELSE sleeps = posts
    /\ \A i \in DOMAIN slept : slept[i] = rconf_sleep

C6_Witness ==
    /\ pc = "loop"
    /\ rconf_sleep > 0
    /\ posts >= 2
    /\ sleeps = posts

\* C7: the duration of a returned result times the sample rate is the number
\* of frames of the transcoder's output file.
C7_DurationFromAudio ==
    pc = "done" =>
        result.audio_length.num * result.audio_sample_rate
            = FrameCount(fs[output_file_path_2]) * result.audio_length.den

\* C8: the sample buffer of a returned result is the sequence of 16-bit
\* samples of the transcoder's output file, in order, each divided by 32768.
C8_SamplesFromAudio ==
    pc = "done" =>
        result.audio_samples
            = Normalize(fromstring(fs[output_file_path_2].data))

\* C9: when outputPath is given and the call succeeds, the audio data at
\* outputPath is the transcoder's output, not the raw provider response.
C9_OutputIsTranscoded ==
    (pc = "done" /\ output_file_path # None /\ proc = "ok") =>
        fs[output_file_path].data = fs[output_file_path_2].data

\* C10: every returned result carries sample rate 16000 and format "pcm16".
C10_FixedRateAndFormat ==
    result.returned =>
        (result.audio_sample_rate = 16000 /\ result.audio_format = "pcm16")

C10_Witness ==
    /\ pc = "done"
    /\ result.returned
    /\ TranscoderFailed
    /\ response.content = <<0, 128, 5>>

\* the url of a voice
VoiceUrl(voice) == <<URL, END_POINT, voice>>

\* C11: the voice in the request URL is the configured voice-id override when
\* one is configured, and otherwise the catalog entry of the given voice
\* code (so different catalog voices give different URLs).
C11_VoiceInUrl ==
    posts >= 1 =>
        /\ rconf_voice_id # NoVoiceId => url = VoiceUrl(rconf_voice_id)
        /\ (rconf_voice_id = NoVoiceId
            /\ voice_code \in DOMAIN LANGUAGE_TO_VOICE_CODE) =>
               url = VoiceUrl(LANGUAGE_TO_VOICE_CODE[voice_code])

\* C12: a call whose voice code is not in the catalog fails with
\* ConfigurationError before any network call: no sleep, no POST, no file
\* created.
C12_UnknownVoiceCode ==
    voice_code \notin DOMAIN LANGUAGE_TO_VOICE_CODE =>
        /\ sleeps = 0
        /\ posts = 0
        /\ Existing(fs) \subseteq {OutPath}
        /\ Returned => (pc = "failed" /\ error = "ConfigurationError")

\* the temporary files the second call created
OtherTmpFiles == {other.input_file_path, other.output_file_path_2} \ {None}

\* the temporary paths assigned so far, call by call and role by role
AssignedTmp ==
    {x \in {<<1, input_file_path>>, <<2, output_file_path_2>>,
            <<3, other.input_file_path>>, <<4, other.output_file_path_2>>} :
        x[2] # None}

\* C13: for every interleaving of two calls, the temporary paths of a call
\* are distinct from each other and from those of the other call, and no
\* call writes the other call's temporary files.
C13_TmpPathsDistinct ==
    /\ [](\A x, y \in AssignedTmp : x[1] # y[1] => x[2] # y[2])
    /\ [][/\ other' # other =>
                \A p \in CallTmpFiles : fs'[p] = fs[p]
          /\ other' = other =>
                \A p \in OtherTmpFiles : fs'[p] = fs[p]]_vars

C13_Witness ==
    /\ Cardinality(CallTmpFiles) = 2
    /\ Cardinality(OtherTmpFiles) = 2
    /\ pc = "ffmpeg"
    /\ other.pc = "ffmpeg"

\* C14: after a successful call with an output path, the file there is a
\* WAVE file whose header declares 1 channel, 2 bytes per sample and frame
\* rate 16000.
C14_OutputHeader ==
    (pc = "done" /\ output_file_path # None) =>
        /\ fs[output_file_path].exists
        /\ fs[output_file_path].hdr = <<1, 2, 16000>>

C14_Witness ==
    /\ pc = "done"
    /\ output_file_path # None
    /\ response.content = <<0, 128, 5>>
    /\ proc = "ok"

\* the number of non-200 answers received so far
Non200Count ==
    Cardinality({i \in DOMAIN statuses :
                    ~statuses[i].raised /\ statuses[i].status_code # 200})

\* the counter attempts is bound from line 302 on
AttemptsBound == pc # "start"

\* C15 as stated: in every state the number of POSTs is at most the
\* configured attempt count, and the remaining attempts are the configured
\* count minus the non-200 answers received.
C15_PostsWithinAttempts ==
    /\ posts <= rconf_attempts
    /\ AttemptsBound => attempts = rconf_attempts - Non200Count

\* C15 amended: the number of POSTs is at most the configured attempt count,
\* or zero when that count is negative; the remaining attempts are the
\* configured count minus the non-200 answers received.
C15_Amended ==
    /\ posts <= (IF rconf_attempts < 0 THEN 0 ELSE rconf_attempts)
    /\ AttemptsBound => attempts = rconf_attempts - Non200Count

C15_Witness ==
    /\ posts >= 2
    /\ posts = rconf_attempts
    /\ statuses[Len(statuses)] = Answered(200)
    /\ attempts = 1

\* C16: every call eventually ends, with a result (done) or with an error
\* (failed), whatever the provider answers and whatever the attempt count.
C16_Terminates == <>Returned

C16_Witness ==
    /\ pc = "failed"
    /\ posts >= 3
    /\ AllNon200

\* some POST of the call was answered 200
Got200 == \E i \in DOMAIN statuses : statuses[i] = Answered(200)

\* the last POST of the call was answered 200
Last200 ==
    Len(statuses) >= 1 /\ statuses[Len(statuses)] = Answered(200)

\* C17: the transcoder is spawned at most once per call, only after a POST
\* was answered 200 and the raw response was written to the temporary input
\* file (with or without output path); a call that got no 200 spawns no
\* process and creates no temporary file.
C17_SpawnOnceAfter200 ==
    /\ spawns <= 1
    /\ spawns >= 1 =>
          /\ Got200
          /\ input_file_path # None
          /\ fs[input_file_path] = RawWrite(response.content)
    /\ ~Got200 =>
          /\ spawns = 0
          /\ CallTmpFiles = {}
          /\ Existing(fs) \subseteq {OutPath}

C17_Witness ==
    /\ spawns = 1
    /\ output_file_path = None
    /\ posts >= 2
    /\ Got200

\* C18: a result is returned only if the last POST was answered 200; a call
\* whose answers were all non-200, or in which a POST raised, ends with an
\* error; every ended call has exactly one of result and error.
C18_ResultOnlyAfter200 ==
    /\ result.returned => (Last200 /\ pc = "done" /\ error = "")
    /\ pc = "done" => result.returned
    /\ pc = "failed" => (error # "" /\ ~result.returned)
    /\ (Returned /\ (AllNon200 \/ SomePostRaised)) => pc = "failed"

C18_Witness ==
    /\ pc = "done"
    /\ result.returned
    /\ posts >= 2
    /\ Non200Count >= 1

\* C19: with a configured attempt count of zero or less the call can only
\* fail with the attempts-exhausted error: no sleep, no POST, no file
\* created or written, no result.
C19_NoAttempts ==
    rconf_attempts <= 0 =>
        /\ sleeps = 0
        /\ posts = 0
        /\ Existing(fs) \subseteq {OutPath}
        /\ fs[OutPath] \in {NoFile, OldFile}
        /\ ~result.returned
        /\ pc \in {"start", "loop", "check", "failed"}
        /\ Returned => error = ERR_STATUS

C19_Witness ==
    /\ rconf_attempts = 0
    /\ pc = "failed"
    /\ error = ERR_STATUS
    /\ output_file_path # None
    /\ fs[OutPath] = OldFile

====
